---------------------------- MODULE Spec2Model ----------------------------
(***************************************************************************)
(* Model of the package-selection engine of com.mobiquity.packer.          *)
(*                                                                         *)
(*   - DefaultItemSelector.selectItems (src/src/packer.ts:68-103), the     *)
(*     inclusion-order depth-first search, as a state machine with an      *)
(*     explicit call stack, one action per step of one activation;        *)
(*   - the same method as a recursive operator (selectItems), used where   *)
(*     the method is called as a whole (DefaultItemPacker.pack, runs on a  *)
(*     reordered input);                                                   *)
(*   - the binary include/exclude search nested in the standalone          *)
(*     pack(input) (src/src/packer.ts:306-333), as a recursive operator;   *)
(*   - DefaultItemPacker.pack (src/src/packer.ts:120-178), one action per  *)
(*     iteration of its loop over the input lines.                         *)
(*                                                                         *)
(* Weights are fractional numbers in the source; here they are integers    *)
(* in a fixed unit.  Floating-point rounding is outside the model.         *)
(***************************************************************************)
EXTENDS Integers, Sequences, FiniteSets, TLC

\* ------------------------------------------------------------------ bounds
MaxItems == 3

MaxLimit == 3

MaxLines == 2

\* Weights and costs the items of an instance are drawn from: for the calls
\* made as a whole, and (a smaller set) for the step-by-step search.
Weights == 0 .. 3

Costs == 0 .. 2

StepWeights == 0 .. 2

StepCosts == 0 .. 1

VARIABLES
  items,         \* selectItems' top-level `items` argument
  packageLimit,  \* selectItems' `packageLimit` argument
  stack,         \* activations of selectItems, innermost last
  resultObj,     \* the shared BestResult {maxCost, maxWeight, maxSelectedItems}
  evaluated,     \* history: the selectedItems of every activation that reached line 81
  binaryResult,  \* outcome of the binary include/exclude search on the same input
  sortedResult,  \* outcome of selectItems on the input sorted by cost/weight
  pc,            \* "idle"; "start", "searching", "returned": the top-level call of
                 \* selectItems; "binary", "sorted": the comparison runs after it
  lines,         \* DefaultItemPacker.pack: the lines read from the file
  results,       \* pack: the `results` array
  packState      \* pack: "idle", "start", "returned" or "thrown"

vars == <<items, packageLimit, stack, resultObj, evaluated, binaryResult,
          sortedResult, pc, lines, results, packState>>

selVars == <<items, packageLimit, stack, resultObj, evaluated, binaryResult,
             sortedResult, pc>>

packVars == <<lines, results, packState>>

\* ------------------------------------------------------------ data helpers
\* interface Item { index; weight; cost }
Item == [index : 1 .. MaxItems, weight : Weights, cost : Costs]

RECURSIVE SumWeight(_)
SumWeight(s) == IF s = <<>> THEN 0 ELSE Head(s).weight + SumWeight(Tail(s))

RECURSIVE SumCost(_)
SumCost(s) == IF s = <<>> THEN 0 ELSE Head(s).cost + SumCost(Tail(s))

\* Array.prototype.slice(start): the elements from 0-based position `start` on.
slice(arr, start) == SubSeq(arr, start + 1, Len(arr))

\* arr[i] with the source's 0-based index.
At(arr, i) == arr[i + 1]

\* The value Infinity of packer.ts:160: above every total weight of the model.
Infinity == 1000000

\* const resultObj = { maxCost: 0, maxWeight: Infinity, maxSelectedItems: [] }
FreshResult == [maxCost |-> 0, maxWeight |-> Infinity, maxSelectedItems |-> <<>>]

\* ---------------------------------------------------------------- mutants
\* Plausible slips of the definitions below: a property that holds of the
\* code is expected to fail when the definition is replaced by its variant.

\* Pruned with >= for >: a candidate exactly at the capacity is abandoned.
PrunedAtLimit(totalWeight, limit) == totalWeight >= limit

\* Pruned off by one: a candidate one unit over the capacity is kept.
PrunedLate(totalWeight, limit) == totalWeight > limit + 1

\* Update without its else-if branch: no tie-break on weight.
UpdateCostOnly(res, totalWeight, totalCost, selectedItems) ==
  IF totalCost > res.maxCost
    THEN [maxCost |-> totalCost, maxWeight |-> totalWeight,
          maxSelectedItems |-> selectedItems]
    ELSE res

\* Update whose else-if branch forgets to record the new weight.
UpdateKeepsWeight(res, totalWeight, totalCost, selectedItems) ==
  IF totalCost > res.maxCost
    THEN [maxCost |-> totalCost, maxWeight |-> totalWeight,
          maxSelectedItems |-> selectedItems]
    ELSE IF totalCost = res.maxCost /\ totalWeight < res.maxWeight
      THEN [res EXCEPT !.maxSelectedItems = selectedItems]
      ELSE res

\* Update with >= for > on the cost: an equal-cost candidate replaces the best.
UpdateOnEqualCost(res, totalWeight, totalCost, selectedItems) ==
  IF totalCost >= res.maxCost
    THEN [maxCost |-> totalCost, maxWeight |-> totalWeight,
          maxSelectedItems |-> selectedItems]
    ELSE res

\* Update with <= for < on the weight: a fully tied candidate replaces the best.
UpdateOnTie(res, totalWeight, totalCost, selectedItems) ==
  IF totalCost > res.maxCost
    THEN [maxCost |-> totalCost, maxWeight |-> totalWeight,
          maxSelectedItems |-> selectedItems]
    ELSE IF totalCost = res.maxCost /\ totalWeight <= res.maxWeight
      THEN [res EXCEPT !.maxWeight = totalWeight,
                       !.maxSelectedItems = selectedItems]
      ELSE res

\* OnInvalidLimit that rethrows instead of skipping the line.
AbortOnInvalidLimit(out) == [thrown |-> TRUE, results |-> out.results]

\* ------------------------------------------ DefaultItemSelector.selectItems
\* if (totalWeight > packageLimit) return;
Pruned(totalWeight, limit) == totalWeight > limit

\* The if / else-if of packer.ts:81-88 on the shared result object.
Update(res, totalWeight, totalCost, selectedItems) ==
  IF totalCost > res.maxCost
    THEN [maxCost |-> totalCost, maxWeight |-> totalWeight,
          maxSelectedItems |-> selectedItems]
    ELSE IF totalCost = res.maxCost /\ totalWeight < res.maxWeight
      THEN [res EXCEPT !.maxWeight = totalWeight,
                       !.maxSelectedItems = selectedItems]
      ELSE res

\* The activation record of one call of selectItems.
Frame(its, tw, tc, sel) ==
  [items |-> its, totalWeight |-> tw, totalCost |-> tc, selectedItems |-> sel,
   i |-> 0, pc |-> "entry"]

\* Callee with slice(i + 2) for slice(i + 1): the item after the chosen one is
\* dropped from the remaining items.
CalleeSkipsNext(f) ==
  [items |-> SubSeq(f.items, f.i + 3, Len(f.items)),
   totalWeight |-> f.totalWeight + f.items[f.i + 1].weight,
   totalCost |-> f.totalCost + f.items[f.i + 1].cost,
   selectedItems |-> Append(f.selectedItems, f.items[f.i + 1]),
   i |-> 0, pc |-> "entry"]

\* Callee with slice(i) for slice(i + 1): the chosen item stays among the
\* remaining items and can be chosen again.
CalleeKeepsChosen(f) ==
  [items |-> SubSeq(f.items, f.i + 1, Len(f.items)),
   totalWeight |-> f.totalWeight + f.items[f.i + 1].weight,
   totalCost |-> f.totalCost + f.items[f.i + 1].cost,
   selectedItems |-> Append(f.selectedItems, f.items[f.i + 1]),
   i |-> 0, pc |-> "entry"]

\* The callee of packer.ts:93-100 for loop index i of activation f.
Callee(f) ==
  Frame(slice(f.items, f.i + 1),
        f.totalWeight + At(f.items, f.i).weight,
        f.totalCost + At(f.items, f.i).cost,
        Append(f.selectedItems, At(f.items, f.i)))

Top == stack[Len(stack)]

Pop == SubSeq(stack, 1, Len(stack) - 1)

\* The whole method as a function of its arguments: the result object after the
\* call returns.  The for loop of packer.ts:90-101 is the inner recursion on i.
RECURSIVE selectItems(_, _, _, _, _, _), selectLoop(_, _, _, _, _, _, _)
selectItems(its, limit, totalWeight, totalCost, selectedItems, res) ==
  IF Pruned(totalWeight, limit)
    THEN res
    ELSE selectLoop(its, 0, limit, totalWeight, totalCost, selectedItems,
                    Update(res, totalWeight, totalCost, selectedItems))

selectLoop(its, i, limit, totalWeight, totalCost, selectedItems, res) ==
  IF i < Len(its)
    THEN selectLoop(its, i + 1, limit, totalWeight, totalCost, selectedItems,
                    selectItems(slice(its, i + 1), limit,
                                totalWeight + At(its, i).weight,
                                totalCost + At(its, i).cost,
                                Append(selectedItems, At(its, i)), res))
    ELSE res

\* --------------------------- pack(input): the binary include/exclude search
\* let maxCost = 0; let maxSelectedItems = [];
FreshBinary == [maxCost |-> 0, maxSelectedItems |-> <<>>]

\* The leaf update of packer.ts:310-316.
BinaryLeaf(best, totalCost, selectedItems) ==
  IF totalCost > best.maxCost
    THEN [maxCost |-> totalCost, maxSelectedItems |-> selectedItems]
    ELSE best

\* The nested selectItems of packer.ts:309-326; `best` is the pair of closure
\* variables (maxCost, maxSelectedItems) before the call, the value is the
\* pair after it.
RECURSIVE binarySelectItems(_, _, _, _, _, _)
binarySelectItems(its, limit, totalWeight, totalCost, selectedItems, best) ==
  IF Len(its) = 0
    THEN BinaryLeaf(best, totalCost, selectedItems)
    ELSE LET item == At(its, 0)
             remainingItems == slice(its, 1)
             afterInclude ==
               IF totalWeight + item.weight <= limit
                 THEN binarySelectItems(remainingItems, limit,
                                        totalWeight + item.weight,
                                        totalCost + item.cost,
                                        Append(selectedItems, item), best)
                 ELSE best
         IN  binarySelectItems(remainingItems, limit, totalWeight, totalCost,
                               selectedItems, afterInclude)

\* --------------------------------------------------- reordering the input
\* a goes before b when a's cost-to-weight ratio is strictly higher
\* (cost_a / weight_a > cost_b / weight_b, cross-multiplied).
RatioHigher(a, b) == a.cost * b.weight > b.cost * a.weight

\* Stable insertion of x into a sequence sorted by descending ratio.
RECURSIVE InsertByRatio(_, _)
InsertByRatio(x, s) ==
  IF s = <<>> THEN <<x>>
  ELSE IF ~RatioHigher(Head(s), x) THEN <<x>> \o s
  ELSE <<Head(s)>> \o InsertByRatio(x, Tail(s))

\* The items sorted by descending cost-to-weight ratio, ties in input order.
RECURSIVE SortByRatio(_)
SortByRatio(s) ==
  IF s = <<>> THEN <<>>
  ELSE InsertByRatio(Head(s), SortByRatio(Tail(s)))

\* ------------------------------------------------- DefaultItemPacker.pack
\* parseInt's not-a-number result, and a parsed number.
NaN == [nan |-> TRUE, value |-> 0]

Num(n) == [nan |-> FALSE, value |-> n]

Digits == {"0", "1", "2", "3", "4", "5", "6", "7", "8", "9"}

DigitValue(ch) ==
  CASE ch = "0" -> 0 [] ch = "1" -> 1 [] ch = "2" -> 2 [] ch = "3" -> 3
    [] ch = "4" -> 4 [] ch = "5" -> 5 [] ch = "6" -> 6 [] ch = "7" -> 7
    [] ch = "8" -> 8 [] ch = "9" -> 9

\* String.prototype.trim on a string given as its sequence of characters.
RECURSIVE TrimLeft(_)
TrimLeft(str) ==
  IF str # <<>> /\ Head(str) = " " THEN TrimLeft(Tail(str)) ELSE str

RECURSIVE TrimRight(_)
TrimRight(str) ==
  IF str # <<>> /\ str[Len(str)] = " "
    THEN TrimRight(SubSeq(str, 1, Len(str) - 1))
    ELSE str

trim(str) == TrimRight(TrimLeft(str))

\* The value of the longest prefix of decimal digits, acc being the value so
\* far and seen whether a digit was read.
RECURSIVE DigitPrefix(_, _, _)
DigitPrefix(str, acc, seen) ==
  IF str # <<>> /\ Head(str) \in Digits
    THEN DigitPrefix(Tail(str), 10 * acc + DigitValue(Head(str)), TRUE)
    ELSE IF seen THEN Num(acc) ELSE NaN

\* parseInt(str, 10): leading white space, an optional sign, then digits;
\* NaN when no digit follows.
parseInt(str) ==
  LET t == TrimLeft(str)
      negative == t # <<>> /\ Head(t) = "-"
      signed == t # <<>> /\ Head(t) \in {"-", "+"}
      body == IF signed THEN Tail(t) ELSE t
      n == DigitPrefix(body, 0, FALSE)
  IN  IF n.nan THEN NaN ELSE IF negative THEN Num(0 - n.value) ELSE n

\* parsePackageLimit (packer.ts:180-188): the limit, or a thrown APIException.
parsePackageLimit(packageLimitString) ==
  LET parsed == parseInt(trim(packageLimitString))
  IN  IF parsed.nan \/ parsed.value <= 0
        THEN [thrown |-> TRUE, value |-> 0]
        ELSE [thrown |-> FALSE, value |-> parsed.value]

\* DefaultItemParser.parseItems (packer.ts:44-65) on the tokens of a line: a
\* token without the currency mark does not match the item pattern and the
\* parser throws; the others become items in the order of the line.
RECURSIVE parseItems(_)
parseItems(tokens) ==
  IF tokens = <<>> THEN [thrown |-> FALSE, items |-> <<>>]
  ELSE IF ~Head(tokens).euro THEN [thrown |-> TRUE, items |-> <<>>]
  ELSE LET rest == parseItems(Tail(tokens))
       IN  IF rest.thrown THEN rest
           ELSE [thrown |-> FALSE,
                 items |-> <<[index |-> Head(tokens).index,
                              weight |-> Head(tokens).weight,
                              cost |-> Head(tokens).cost]>> \o rest.items]

\* Array.prototype.sort((a, b) => a - b) on the selected indexes.
RECURSIVE InsertAscending(_, _)
InsertAscending(x, s) ==
  IF s = <<>> THEN <<x>>
  ELSE IF x <= Head(s) THEN <<x>> \o s
  ELSE <<Head(s)>> \o InsertAscending(x, Tail(s))

RECURSIVE SortAscending(_)
SortAscending(s) ==
  IF s = <<>> THEN <<>>
  ELSE InsertAscending(Head(s), SortAscending(Tail(s)))

\* The output line '-'.
Dash == <<"-">>

\* packer.ts:171-174: the selected indexes, sorted and joined with ','; the
\* empty string becomes '-'.  A line of output is the sequence of its fields.
ResultLine(maxSelectedItems) ==
  LET selectedIndexes ==
        SortAscending([k \in 1 .. Len(maxSelectedItems) |-> maxSelectedItems[k].index])
      result == [k \in 1 .. Len(selectedIndexes) |-> ToString(selectedIndexes[k])]
  IN  IF result = <<>> THEN Dash ELSE result

\* packer.ts:137-141: the limit of a line did not parse: '-' is pushed and
\* the loop continues with the next line.
OnInvalidLimit(out) == [thrown |-> FALSE, results |-> Append(out.results, Dash)]

\* The body of the for-of loop of packer.ts:131-175 on one line; out is
\* (thrown, results) before the iteration, the value is the pair after it.
packLine(line, out) ==
  LET limit == parsePackageLimit(line.limit)
      parsed == parseItems(line.tokens)
  IN  IF limit.thrown THEN OnInvalidLimit(out)
      ELSE IF parsed.thrown THEN [thrown |-> TRUE, results |-> out.results]
      ELSE [thrown |-> FALSE,
            results |-> Append(out.results,
                          ResultLine(selectItems(parsed.items, limit.value, 0, 0,
                                                 <<>>, FreshResult).maxSelectedItems))]

\* DefaultItemPacker.pack: the loop over the lines; a throw ends it.
RECURSIVE pack(_, _)
pack(ls, out) ==
  IF ls = <<>> \/ out.thrown THEN out
  ELSE pack(Tail(ls), packLine(Head(ls), out))

\* ---------------------------------------------------------------- inputs
\* Input sequences of at most n items: item i of the input carries index i.
Inputs(W, C) ==
  UNION { { [i \in 1 .. n |-> [index |-> i, weight |-> w[i], cost |-> c[i]]] :
              w \in [1 .. n -> W], c \in [1 .. n -> C] } :
          n \in 0 .. MaxItems }

\* The capacity tokens of the input lines, as character sequences.
LimitStrings ==
  { <<"x">>, <<"0">>, <<"-", "2">>, <<"2">>, <<" ", "3", "x">> }

\* The item tokens of the input lines; euro is whether the cost carries its
\* currency mark.
LineTokens ==
  { [index |-> 2, weight |-> 1, cost |-> 1, euro |-> TRUE],
    [index |-> 1, weight |-> 2, cost |-> 2, euro |-> TRUE],
    [index |-> 3, weight |-> 1, cost |-> 1, euro |-> FALSE] }

TokenLists ==
  {<<>>} \cup { <<t>> : t \in LineTokens }
         \cup { <<p[1], p[2]>> : p \in { q \in LineTokens \X LineTokens : q[1] # q[2] } }

Line == [limit : LimitStrings, tokens : TokenLists]

LineSeqs == UNION { [1 .. n -> Line] : n \in 0 .. MaxLines }

\* ---------------------------------------------------------------- actions
SelIdle ==
  /\ items = <<>>
  /\ packageLimit = 0
  /\ stack = <<>>
  /\ resultObj = FreshResult
  /\ evaluated = <<>>
  /\ binaryResult = FreshBinary
  /\ sortedResult = FreshResult
  /\ pc = "idle"

PackIdle ==
  /\ lines = <<>>
  /\ results = <<>>
  /\ packState = "idle"

\* The step-by-step search: the top-level call
\* selectItems(items, packageLimit, 0, 0, [], resultObj) has just been made.
Init ==
  /\ items \in Inputs(StepWeights, StepCosts)
  /\ packageLimit \in 0 .. MaxLimit
  /\ stack = <<Frame(items, 0, 0, <<>>)>>
  /\ resultObj = FreshResult
  /\ evaluated = <<>>
  /\ binaryResult = FreshBinary
  /\ sortedResult = FreshResult
  /\ pc = "searching"
  /\ PackIdle

\* pc after the innermost activation has returned.
AfterPop == IF Len(stack) = 1 THEN "returned" ELSE "searching"

\* packer.ts:77-79: the activation is over capacity and returns at once.
Prune ==
  /\ stack # <<>>
  /\ Top.pc = "entry"
  /\ Pruned(Top.totalWeight, packageLimit)
  /\ stack' = Pop
  /\ pc' = AfterPop
  /\ UNCHANGED <<items, packageLimit, resultObj, evaluated, binaryResult,
                 sortedResult, packVars>>

\* packer.ts:81-88: the candidate is compared with the best result so far.
Evaluate ==
  /\ stack # <<>>
  /\ Top.pc = "entry"
  /\ ~Pruned(Top.totalWeight, packageLimit)
  /\ resultObj' = Update(resultObj, Top.totalWeight, Top.totalCost,
                         Top.selectedItems)
  /\ evaluated' = Append(evaluated, Top.selectedItems)
  /\ stack' = [stack EXCEPT ![Len(stack)].pc = "loop"]
  /\ UNCHANGED <<items, packageLimit, binaryResult, sortedResult, pc,
                 packVars>>

\* packer.ts:90-100: one iteration of the for loop calls selectItems.
Recurse ==
  /\ stack # <<>>
  /\ Top.pc = "loop"
  /\ Top.i < Len(Top.items)
  /\ stack' = Append([stack EXCEPT ![Len(stack)].i = @ + 1], Callee(Top))
  /\ UNCHANGED <<items, packageLimit, resultObj, evaluated, binaryResult,
                 sortedResult, pc, packVars>>

\* packer.ts:90,102: the for loop is over and the activation returns.
Return ==
  /\ stack # <<>>
  /\ Top.pc = "loop"
  /\ Top.i >= Len(Top.items)
  /\ stack' = Pop
  /\ pc' = AfterPop
  /\ UNCHANGED <<items, packageLimit, resultObj, evaluated, binaryResult,
                 sortedResult, packVars>>

Next == Prune \/ Evaluate \/ Recurse \/ Return

Spec == Init /\ [][Next]_vars

\* The search runs on one thread with no suspension point: while a step is
\* possible, one is taken.
FairSpec == Spec /\ WF_vars(Next)

\* The top-level call has returned.
Returned == pc = "returned"

\* ------------------------------------------------- the call as a whole
CallInit ==
  /\ items \in Inputs(Weights, Costs)
  /\ packageLimit \in 0 .. MaxLimit
  /\ stack = <<>>
  /\ resultObj = FreshResult
  /\ evaluated = <<>>
  /\ binaryResult = FreshBinary
  /\ sortedResult = FreshResult
  /\ pc = "start"
  /\ PackIdle

\* itemSelector.selectItems(items, packageLimit, 0, 0, [], resultObj), from the
\* call to its return.
CallSelectItems ==
  /\ pc = "start"
  /\ resultObj' = selectItems(items, packageLimit, 0, 0, <<>>, resultObj)
  /\ pc' = "returned"
  /\ UNCHANGED <<items, packageLimit, stack, evaluated, binaryResult,
                 sortedResult, packVars>>

\* The binary include/exclude search of pack(input) on the same instance.
RunBinary ==
  /\ pc = "returned"
  /\ binaryResult' = binarySelectItems(items, packageLimit, 0, 0, <<>>, FreshBinary)
  /\ pc' = "binary"
  /\ UNCHANGED <<items, packageLimit, stack, resultObj, evaluated, sortedResult,
                 packVars>>

\* selectItems on the same instance with the items sorted by ratio.
RunSorted ==
  /\ pc = "binary"
  /\ sortedResult' = selectItems(SortByRatio(items), packageLimit, 0, 0, <<>>,
                                 FreshResult)
  /\ pc' = "sorted"
  /\ UNCHANGED <<items, packageLimit, stack, resultObj, evaluated, binaryResult,
                 packVars>>

CallNext == CallSelectItems \/ RunBinary \/ RunSorted

CallSpec == CallInit /\ [][CallNext]_vars

\* ------------------------------------------------------ pack as a whole
PackInit ==
  /\ SelIdle
  /\ lines \in LineSeqs
  /\ results = <<>>
  /\ packState = "start"

\* itemPacker.pack(filePath, logger) on the lines read from the file.
Pack ==
  /\ packState = "start"
  /\ LET out == pack(lines, [thrown |-> FALSE, results |-> <<>>])
     IN  /\ results' = out.results
         /\ packState' = IF out.thrown THEN "thrown" ELSE "returned"
  /\ UNCHANGED <<selVars, lines>>

PackNext == Pack

PackSpec == PackInit /\ [][PackNext]_vars

\* The search as a whole agrees with its step-by-step execution.
StepsAgreeWithCall ==
  Returned => resultObj = selectItems(items, packageLimit, 0, 0, <<>>, FreshResult)

\* ------------------------------------------------- vocabulary of the claims
\* A subset of the instance is a set of input positions.
Positions == 1 .. Len(items)

\* Total weight and cost of the items at the positions of S up to k.
RECURSIVE WeightUpTo(_, _)
WeightUpTo(S, k) ==
  IF k = 0 THEN 0
  ELSE (IF k \in S THEN items[k].weight ELSE 0) + WeightUpTo(S, k - 1)

RECURSIVE CostUpTo(_, _)
CostUpTo(S, k) ==
  IF k = 0 THEN 0
  ELSE (IF k \in S THEN items[k].cost ELSE 0) + CostUpTo(S, k - 1)

SetWeight(S) == WeightUpTo(S, Len(items))

SetCost(S) == CostUpTo(S, Len(items))

Feasible(S) == SetWeight(S) <= packageLimit

FeasibleSets == { S \in SUBSET Positions : Feasible(S) }

\* The feasible subsets of maximal cost, and among them those of minimal weight.
MaxCostSets ==
  LET F == FeasibleSets
      costs == { SetCost(S) : S \in F }
      best == CHOOSE c \in costs : \A d \in costs : d <= c
  IN  { S \in F : SetCost(S) = best }

BestSets ==
  LET M == MaxCostSets
      weights == { SetWeight(S) : S \in M }
      least == CHOOSE w \in weights : \A v \in weights : w <= v
  IN  { S \in M : SetWeight(S) = least }

\* The indexes of a sequence of items, as a sequence and as a set.
Indexes(sel) == [k \in 1 .. Len(sel) |-> sel[k].index]

IndexSet(sel) == { sel[k].index : k \in 1 .. Len(sel) }

\* The positions of a subset in ascending order: the order in which the
\* inclusion-order recursion selects them.
RECURSIVE Ascending(_)
Ascending(S) ==
  IF S = {} THEN <<>>
  ELSE LET m == CHOOSE q \in S : \A r \in S : q <= r
       IN  <<m>> \o Ascending(S \ {m})

\* s comes no later than t in the depth-first enumeration: s is a prefix of t,
\* or s is smaller at the first position where they differ.
LexLeq(s, t) ==
  \/ /\ Len(s) <= Len(t)
     /\ \A k \in 1 .. Len(s) : s[k] = t[k]
  \/ \E k \in 1 .. Len(s) :
       /\ k <= Len(t)
       /\ s[k] < t[k]
       /\ \A j \in 1 .. k - 1 : s[j] = t[j]

C2_Feasibility ==
  /\ SumWeight(resultObj.maxSelectedItems) <= packageLimit
  /\ \A k \in 1 .. Len(evaluated) : SumWeight(evaluated[k]) <= packageLimit

\* A search in which an activation over capacity was pruned after resultObj
\* had taken a non-empty selection.
C2_Witness ==
  /\ pc = "searching"
  /\ resultObj.maxSelectedItems # <<>>
  /\ Top.pc = "entry"
  /\ Top.totalWeight > packageLimit
  /\ Top.totalCost > resultObj.maxCost

\* C3 (tie-break on weight): the returned subset weighs no more than any
\* feasible subset of maximal cost.
C3_TieBreakWeight ==
  Returned =>
    /\ resultObj.maxWeight = SumWeight(resultObj.maxSelectedItems)
    /\ LET chosen == resultObj.maxWeight
       IN  \A S \in MaxCostSets : chosen <= SetWeight(S)

\* Two feasible subsets of maximal, non-zero cost with different weights.
C3_Witness ==
  /\ Returned
  /\ resultObj.maxCost > 0
  /\ \E S \in MaxCostSets : \E T \in MaxCostSets : SetWeight(S) < SetWeight(T)

\* C4 (the two search variants agree): the inclusion-order search and the
\* binary include/exclude search end with the same set of item indexes.
C4_VariantsAgree ==
  pc \in {"binary", "sorted"} =>
    IndexSet(binaryResult.maxSelectedItems) = IndexSet(resultObj.maxSelectedItems)

\* C5 as claimed (reordering does not change the result): the search on the
\* items sorted by descending cost-to-weight ratio selects the same indexes.
C5_SameIndexesAfterSort ==
  pc = "sorted" =>
    IndexSet(sortedResult.maxSelectedItems) = IndexSet(resultObj.maxSelectedItems)

\* C5 as amended: the search on the sorted items ends with the same total cost
\* and the same total weight as the search on the input order.
C5_SameCostAndWeightAfterSort ==
  pc = "sorted" =>
    /\ sortedResult.maxCost = resultObj.maxCost
    /\ sortedResult.maxWeight = resultObj.maxWeight
    /\ SumCost(sortedResult.maxSelectedItems) = SumCost(resultObj.maxSelectedItems)
    /\ SumWeight(sortedResult.maxSelectedItems) = SumWeight(resultObj.maxSelectedItems)

\* The sorted run was made on an order different from the input order and
\* selected some items.
C5_Witness ==
  /\ pc = "sorted"
  /\ SortByRatio(items) # items
  /\ sortedResult.maxSelectedItems # <<>>
  /\ Cardinality(MaxCostSets) > 1

\* The lines of the file whose capacity token is unparseable or not positive,
\* those whose capacity is valid, and a sequence restricted to some positions.
InvalidLimitStrings == { <<"x">>, <<"0">>, <<"-", "2">> }

RECURSIVE Keep(_, _, _)
Keep(s, ls, k) ==
  IF k > Len(ls) THEN <<>>
  ELSE IF ls[k].limit \in InvalidLimitStrings THEN Keep(s, ls, k + 1)
  ELSE <<s[k]>> \o Keep(s, ls, k + 1)

AllTokensWellFormed ==
  \A k \in 1 .. Len(lines) : \A j \in 1 .. Len(lines[k].tokens) :
    lines[k].tokens[j].euro

\* C6 (per-line isolation of an invalid capacity): when every item token is
\* well-formed, pack returns one output line per input line; the line of an
\* invalid capacity is '-', and the other lines are what pack returns for
\* the file without the invalid lines.
C6_PerLineIsolation ==
  (packState # "start" /\ packState # "idle" /\ AllTokensWellFormed) =>
    /\ packState = "returned"
    /\ Len(results) = Len(lines)
    /\ \A k \in 1 .. Len(lines) :
         lines[k].limit \in InvalidLimitStrings => results[k] = Dash
    /\ Keep(results, lines, 1)
         = pack(Keep(lines, lines, 1), [thrown |-> FALSE, results |-> <<>>]).results

\* pack returned for a file whose first line has an invalid capacity and
\* whose second line selects items.
C6_Witness ==
  /\ packState = "returned"
  /\ AllTokensWellFormed
  /\ Len(lines) >= 2
  /\ lines[1].limit \in InvalidLimitStrings
  /\ lines[1].tokens # <<>>
  /\ results[2] # Dash

\* C7 (monotonic BestResult): every step that modifies resultObj raises
\* maxCost, or keeps maxCost and lowers maxWeight.
C7_Monotonic ==
  [][resultObj' # resultObj =>
       \/ resultObj'.maxCost > resultObj.maxCost
       \/ /\ resultObj'.maxCost = resultObj.maxCost
          /\ resultObj'.maxWeight < resultObj.maxWeight]_vars

\* resultObj holds a candidate that replaced an earlier candidate of the same
\* cost and a higher weight.
C7_Witness ==
  /\ resultObj.maxCost > 0
  /\ \E k \in 1 .. Len(evaluated) :
       /\ SumCost(evaluated[k]) = resultObj.maxCost
       /\ SumWeight(evaluated[k]) > resultObj.maxWeight

C9_Exhaustive ==
  /\ \A k \in 1 .. Len(evaluated) : \A j \in 1 .. Len(evaluated) :
       evaluated[k] = evaluated[j] => k = j
  /\ \A k \in 1 .. Len(evaluated) :
       /\ Indexes(evaluated[k]) = Ascending(IndexSet(evaluated[k]))
       /\ IndexSet(evaluated[k]) \in FeasibleSets
  /\ Returned =>
       \A S \in FeasibleSets :
         \E k \in 1 .. Len(evaluated) : Indexes(evaluated[k]) = Ascending(S)

\* A returned search that pruned a subset and evaluated one of two items.
C9_Witness ==
  /\ Returned
  /\ FeasibleSets # SUBSET Positions
  /\ \E k \in 1 .. Len(evaluated) : Len(evaluated[k]) >= 2

\* C10 (nothing selected leaves resultObj untouched): when the top-level call
\* returns with no item selected, maxCost is 0 and maxWeight is Infinity.
C10_UntouchedWhenEmpty ==
  (Returned /\ resultObj.maxSelectedItems = <<>>) =>
    /\ resultObj.maxCost = 0
    /\ resultObj.maxWeight = Infinity

\* The number of activations of selectItems nested below the top-level call.
Depth == IF stack = <<>> THEN 0 ELSE Len(stack) - 1

\* C11 (termination with bounded depth): the search returns, and at every
\* point the number of nested calls below the top-level call, which is the
\* length of the current selectedItems, is at most the number of items.
C11_TerminatesBoundedDepth ==
  /\ [](/\ Depth <= Len(items)
        /\ stack # <<>> => Len(Top.selectedItems) = Depth)
  /\ <>Returned

\* A search over at least two items that has returned after an activation at
\* the full depth, one nested call per item.
C11_Witness ==
  /\ Returned
  /\ Len(items) >= 2
  /\ \E k \in 1 .. Len(evaluated) : Len(evaluated[k]) = Len(items)

=============================================================================
